---- MODULE Spec2Model ----
(***************************************************************************)
(* StaffTrack: the weekly auto-scheduler, leave approval with its schedule *)
(* cascade, and the KPI scoring / auto-warning engine, modelled over the   *)
(* relational tables they read and write.  Every request handler is one    *)
(* action (requests run one at a time and each runs to completion).        *)
(***************************************************************************)
EXTENDS Bags, FiniteSets, Integers, Sequences, TLC

----------------------------------------------------------------------------
(* Bounds of the model                                                     *)

\* number of calendar weeks the dates range over; day 0 is a Monday
NWeeks == 1
\* requests handled in one behaviour; also the reading of the clock
MaxOps == 3
\* rows the leave_requests table may hold
MaxLeaves == 2

Dates == 0 .. (7 * NWeeks - 1)
NULL == "NULL"

----------------------------------------------------------------------------
(* Program constants, src/app/routes/schedule.py                           *)

PRACTICE_ROOMS == <<"Black Room", "Red Room", "Pink Room">>

DrBuleni == <<"D","r","."," ","B","u","l","e","n","i">>
DrRamakuwela == <<"D","r","."," ","R","a","m","a","k","u","w","e","l","a">>
Zwane == <<"Z","w","a","n","e">>

\* the dict keeps insertion order: (key, room) pairs in source order
DENTIST_ROOMS ==
    << <<DrBuleni, "Black Room">>,
       <<DrRamakuwela, "Red Room">>,
       <<Zwane, "Pink Room">> >>

STANDARD_START == 800
STANDARD_END == 1700
SATURDAY_END == 1300

STAFF_ROLES == {"Receptionist", "Dentist", "Dental Assistant", "Cleaner"}

----------------------------------------------------------------------------
(* Calendar                                                                *)

\* mutant: Sunday is 0
weekday_SundayZero(d) == (d + 1) % 7

\* date.weekday(): Monday is 0
weekday(d) == d % 7

\* date.isocalendar()[1].  Day 0 is Monday 2025-12-22, the first day of ISO
\* week 52 of 2025, a year of 52 ISO weeks; the next Monday starts week 1.
isocalendar_week(d) == ((52 - 1 + (d \div 7)) % 52) + 1

get_week_dates(start_date) ==
    LET monday == start_date - weekday(start_date)
    IN  [i \in 1..7 |-> monday + (i - 1)]

----------------------------------------------------------------------------
(* Strings: str.lower() and the `in` substring test                        *)

lower(c) ==
    CASE c = "D" -> "d" [] c = "B" -> "b" [] c = "R" -> "r"
      [] c = "Z" -> "z" [] c = "S" -> "s" [] c = "N" -> "n"
      [] OTHER -> c

LowerStr(s) == [i \in 1..Len(s) |-> lower(s[i])]

IsSubstr(k, s) ==
    \E i \in 0..(Len(s) - Len(k)) : \A j \in 1..Len(k) : s[i + j] = k[j]

RECURSIVE RoomLookup(_, _)
RoomLookup(staff_name, i) ==
    IF i > Len(DENTIST_ROOMS) THEN NULL
    ELSE IF IsSubstr(LowerStr(DENTIST_ROOMS[i][1]), LowerStr(staff_name))
         THEN DENTIST_ROOMS[i][2]
         ELSE RoomLookup(staff_name, i + 1)

\* mutant: the key is compared without lowering the case
get_dentist_room_CaseSensitive(staff_name) ==
    LET hits == {i \in 1..Len(DENTIST_ROOMS) :
                    IsSubstr(DENTIST_ROOMS[i][1], staff_name)}
    IN  IF hits = {} THEN NULL
        ELSE DENTIST_ROOMS[CHOOSE i \in hits : \A j \in hits : i <= j][2]

get_dentist_room(staff_name) == RoomLookup(staff_name, 1)

----------------------------------------------------------------------------
(* Tables                                                                  *)

VARIABLES
    users,          \* users table: id -> [role, status, full_name]
    schedule,       \* schedule table: bag of rows
    leaves,         \* leave_requests table: sequence of rows, id = index
    events,         \* performance_events table: bag of rows
    notifications,  \* notifications table: bag of rows
    kpi_scores,     \* kpi_scores table: set of rows
    warnings,       \* warnings table: bag of rows
    now,            \* the clock: number of requests handled so far
    last,           \* the last request handled and what it returned
    sessions        \* worker -> the request it is handling, between commits

vars == <<users, schedule, leaves, events, notifications, kpi_scores,
          warnings, now, last, sessions>>

UserIds == DOMAIN users

User(role, status, full_name) ==
    [role |-> role, status |-> status, full_name |-> full_name]

\* the roster: the Super Admin that init_db creates, and staff created and
\* assigned through the users routes
Roster ==
    1 :> User("Super Admin", "Active", DrBuleni)
    @@ 2 :> User("Dentist", "Active", DrRamakuwela)
    @@ 3 :> User("Practice Manager", "Active", <<"N"," ","z","w","a","n","e">>)
    @@ 4 :> User("Dental Assistant", "Active", <<"A","n","n">>)
    @@ 5 :> User("Receptionist", "Active", <<"S","u","e">>)

NoRequest == [op |-> "none", key |-> <<>>, result |-> <<>>]

\* the workers that serve requests, each with a database session of its own
Workers == {"w1", "w2"}

\* a session: where its handler stands, the handler's locals, and the rows
\* added to the session and not yet committed
Session(pc, locals, pending) == [pc |-> pc, locals |-> locals, pending |-> pending]

Idle == Session("idle", <<>>, {})

Init ==
    /\ users = Roster
    /\ schedule = EmptyBag
    /\ leaves = <<>>
    /\ events = EmptyBag
    /\ notifications = EmptyBag
    /\ kpi_scores = {}
    /\ warnings = EmptyBag
    /\ now = 0
    /\ last = NoRequest
    /\ sessions = [w \in Workers |-> Idle]

----------------------------------------------------------------------------
(* Queries                                                                 *)

\* the ids of a table in primary-key order (ids are 1..n)
IdSeq(S) == LET All == [i \in 1..Cardinality(S) |-> i]
                In(i) == i \in S
            IN  SelectSeq(All, In)

\* mutant: the last day of the leave is not counted as leave
is_on_leave_EndExclusive(staff_id, check_date) ==
    \E i \in 1..Len(leaves) :
        /\ leaves[i].staff_id = staff_id
        /\ leaves[i].status = "Approved"
        /\ leaves[i].start_date <= check_date
        /\ leaves[i].end_date > check_date

\* mutant: a request of any status counts as leave
is_on_leave_AnyStatus(staff_id, check_date) ==
    \E i \in 1..Len(leaves) :
        /\ leaves[i].staff_id = staff_id
        /\ leaves[i].start_date <= check_date
        /\ leaves[i].end_date >= check_date

\* LeaveRequest.query.filter(staff, Approved, start <= date <= end).first()
is_on_leave(staff_id, check_date) ==
    \E i \in 1..Len(leaves) :
        /\ leaves[i].staff_id = staff_id
        /\ leaves[i].status = "Approved"
        /\ leaves[i].start_date <= check_date
        /\ leaves[i].end_date >= check_date

\* mutant: the "already scheduled" query finds nothing
Existing_Never(sched, staff_id, d) == FALSE

\* Schedule.query.filter_by(staff_id=..., date=...).first() is not None
Existing(sched, staff_id, d) ==
    \E e \in BagToSet(sched) : e.staff_id = staff_id /\ e.date = d

Row(staff_id, d, role, shift_type, room, start_time, end_time) ==
    [staff_id |-> staff_id, date |-> d, role |-> role,
     shift_type |-> shift_type, room |-> room,
     start_time |-> start_time, end_time |-> end_time]

\* mutant: the rows of the run take the place of the rows of their dates
AddRows_Overwrite(sched, rows) ==
    LET dates == {r.date : r \in rows}
        old == {e \in BagToSet(sched) : e.date \notin dates}
    IN  [e \in old |-> sched[e]] (+) SetToBag(rows)

\* db.session.add of each row of a set
AddRows(sched, rows) == sched (+) SetToBag(rows)

SeqToSet(seq) == {seq[i] : i \in 1..Len(seq)}

----------------------------------------------------------------------------
(* The scheduler, auto_generate_schedule                                   *)

\* User.query.filter(status == 'Active', role != 'Super Admin').all()
IsSchedulable(u) == users[u].status = "Active" /\ users[u].role # "Super Admin"

ActiveStaff == SelectSeq(IdSeq(UserIds), IsSchedulable)

IsAssistant(u) == users[u].role = "Dental Assistant"
IsDentist(u) == users[u].role = "Dentist"
IsOther(u) == users[u].role \notin {"Dental Assistant", "Dentist"}

dental_assistants == SelectSeq(ActiveStaff, IsAssistant)
dentists == SelectSeq(ActiveStaff, IsDentist)
other_staff == SelectSeq(ActiveStaff, IsOther)

NotOnLeaveAt(d, u) == ~is_on_leave(u, d)

\* the members of a group not on approved leave on date d, in list order
Available(group, d) ==
    LET Free(u) == NotOnLeaveAt(d, u) IN SelectSeq(group, Free)

\* Mon-Fri loops over dentists and over other staff (lines 105-165): the
\* (member, date) pairs of a group, split by what the loop body does.  The
\* pairs of one run are pairwise distinct, so a row added earlier in the run
\* never turns up as `existing` for a later pair.
LeavePairs(group, weekdays) ==
    {p \in SeqToSet(group) \X SeqToSet(weekdays) : is_on_leave(p[1], p[2])}

ExistsPairs(sched, group, weekdays) ==
    {p \in SeqToSet(group) \X SeqToSet(weekdays) :
        ~is_on_leave(p[1], p[2]) /\ Existing(sched, p[1], p[2])}

CreatePairs(sched, group, weekdays) ==
    {p \in SeqToSet(group) \X SeqToSet(weekdays) :
        ~is_on_leave(p[1], p[2]) /\ ~Existing(sched, p[1], p[2])}

DentistRows(sched, weekdays) ==
    UNION {LET room == get_dentist_room(users[dentist].full_name)
           IN  {Row(dentist, p[2], users[dentist].role, "Full Day", room,
                    STANDARD_START, STANDARD_END) :
                   p \in {q \in CreatePairs(sched, dentists, weekdays) :
                             q[1] = dentist}} :
           dentist \in SeqToSet(dentists)}

OtherRows(sched, weekdays) ==
    {Row(p[1], p[2], users[p[1]].role, "Full Day", NULL,
         STANDARD_START, STANDARD_END) :
        p \in CreatePairs(sched, other_staff, weekdays)}

\* mutant: the loop over the weekdays stops before Friday
AssistantSlots_NoFriday(weekdays) ==
    UNION {LET available_assistants == Available(dental_assistants, weekdays[day_idx + 1])
           IN  {<<day_idx, i, available_assistants[i + 1]>> :
                   i \in 0..(Len(available_assistants) - 1)} :
           day_idx \in 0..3}

\* Mon-Fri loop over dental assistants (lines 168-201): triples
\* (day_idx, i, assistant) of the enumerate() loops, 0-based
AssistantSlots(weekdays) ==
    UNION {LET available_assistants == Available(dental_assistants, weekdays[day_idx + 1])
           IN  {<<day_idx, i, available_assistants[i + 1]>> :
                   i \in 0..(Len(available_assistants) - 1)} :
           day_idx \in 0..4}

AssistantExists(sched, weekdays) ==
    {t \in AssistantSlots(weekdays) : Existing(sched, t[3], weekdays[t[1] + 1])}

\* mutant: the room index counts only the assistants not yet scheduled
AssistantRows_UnscheduledIndex(sched, weekdays) ==
    LET todo == AssistantSlots(weekdays) \ AssistantExists(sched, weekdays)
        Before(t) == Cardinality({x \in todo : x[1] = t[1] /\ x[2] < t[2]})
    IN  {Row(t[3], weekdays[t[1] + 1], "Dental Assistant", "Full Day",
             PRACTICE_ROOMS[((t[1] + Before(t)) % Len(PRACTICE_ROOMS)) + 1],
             STANDARD_START, STANDARD_END) : t \in todo}

AssistantRows(sched, weekdays) ==
    {Row(t[3], weekdays[t[1] + 1], "Dental Assistant", "Full Day",
         PRACTICE_ROOMS[((t[1] + t[2]) % Len(PRACTICE_ROOMS)) + 1],
         STANDARD_START, STANDARD_END) :
        t \in AssistantSlots(weekdays) \ AssistantExists(sched, weekdays)}

\* mutant: the rotation moves on by the number of rows already on that Saturday
SaturdayPick_Shifted(group, saturday) ==
    LET av == Available(group, saturday)
        taken == Cardinality({e \in BagToSet(schedule) : e.date = saturday})
    IN  IF Len(av) = 0 THEN {}
        ELSE {av[((isocalendar_week(saturday) + taken) % Len(av)) + 1]}

\* mutant: the first available member of the group works every Saturday
SaturdayPick_First(group, saturday) ==
    LET av == Available(group, saturday)
    IN  IF Len(av) = 0 THEN {} ELSE {av[1]}

\* Saturday (lines 203-288): one member of each group, by ISO week number
SaturdayPick(group, saturday) ==
    LET av == Available(group, saturday)
    IN  IF Len(av) = 0 THEN {}
        ELSE {av[(isocalendar_week(saturday) % Len(av)) + 1]}

SaturdayDentistRows(sched, saturday) ==
    {Row(u, saturday, users[u].role, "Morning",
         get_dentist_room(users[u].full_name), STANDARD_START, SATURDAY_END) :
        u \in {v \in SaturdayPick(dentists, saturday) : ~Existing(sched, v, saturday)}}

SaturdayAssistantRoom(saturday) ==
    LET av == Available(dentists, saturday)
        week_number == isocalendar_week(saturday)
    IN  IF Len(av) > 0
        THEN get_dentist_room(users[av[(week_number % Len(av)) + 1]].full_name)
        ELSE PRACTICE_ROOMS[(week_number % Len(PRACTICE_ROOMS)) + 1]

SaturdayAssistantRows(sched, saturday) ==
    {Row(u, saturday, "Dental Assistant", "Morning",
         SaturdayAssistantRoom(saturday), STANDARD_START, SATURDAY_END) :
        u \in {v \in SaturdayPick(dental_assistants, saturday) :
                  ~Existing(sched, v, saturday)}}

SaturdayOtherRows(sched, saturday) ==
    {Row(u, saturday, users[u].role, "Morning", NULL,
         STANDARD_START, SATURDAY_END) :
        u \in {v \in SaturdayPick(other_staff, saturday) :
                  ~Existing(sched, v, saturday)}}

\* the whole run: the rows are added group after group, each query seeing
\* the rows added before it (the session autoflushes), then committed
auto_generate_schedule(week_start) ==
    LET week_dates == get_week_dates(week_start)
        weekdays == SubSeq(week_dates, 1, 5)
        saturday == week_dates[6]
        r1 == DentistRows(schedule, weekdays)
        s1 == AddRows(schedule, r1)
        r2 == OtherRows(s1, weekdays)
        s2 == AddRows(s1, r2)
        r3 == AssistantRows(s2, weekdays)
        s3 == AddRows(s2, r3)
        r4 == SaturdayDentistRows(s3, saturday)
        s4 == AddRows(s3, r4)
        r5 == SaturdayAssistantRows(s4, saturday)
        s5 == AddRows(s4, r5)
        r6 == SaturdayOtherRows(s5, saturday)
        s6 == AddRows(s5, r6)
    IN  [schedule |-> s6,
         created_count |->
             Cardinality(r1) + Cardinality(r2) + Cardinality(r3)
             + Cardinality(r4) + Cardinality(r5) + Cardinality(r6),
         skipped_leave |->
             Cardinality(LeavePairs(dentists, weekdays))
             + Cardinality(LeavePairs(other_staff, weekdays)),
         skipped_exists |->
             Cardinality(ExistsPairs(schedule, dentists, weekdays))
             + Cardinality(ExistsPairs(s1, other_staff, weekdays))
             + Cardinality(AssistantExists(s2, weekdays))]

Request(op, key, result) == [op |-> op, key |-> key, result |-> result]

\* POST /schedule/auto-generate
AutoGenerate(week_start) ==
    /\ now < MaxOps
    /\ LET monday == week_start - weekday(week_start)
           run == auto_generate_schedule(monday)
       IN  /\ schedule' = run.schedule
           /\ last' = Request("auto_generate", <<monday>>,
                              <<run.created_count, run.skipped_leave,
                                run.skipped_exists>>)
    /\ now' = now + 1
    /\ UNCHANGED <<users, leaves, events, notifications, kpi_scores, warnings, sessions>>

----------------------------------------------------------------------------
(* Manual schedule maintenance                                             *)

\* the form offers the Active users only; any other staff_id fails validation
ScheduleFormValid(staff_id) == users[staff_id].status = "Active"

\* POST /schedule/add
add(staff_id, d, role, shift_type, room) ==
    /\ now < MaxOps
    /\ IF ~ScheduleFormValid(staff_id)
       THEN /\ last' = Request("add", <<staff_id, d>>, <<"invalid">>)
            /\ UNCHANGED schedule
       ELSE IF is_on_leave(staff_id, d)
       THEN /\ last' = Request("add", <<staff_id, d>>, <<"on_leave">>)
            /\ UNCHANGED schedule
       ELSE IF Existing(schedule, staff_id, d)
       THEN /\ last' = Request("add", <<staff_id, d>>, <<"exists">>)
            /\ UNCHANGED schedule
       ELSE /\ schedule' = AddRows(schedule,
                               {Row(staff_id, d, role, shift_type, room, NULL, NULL)})
            /\ last' = Request("add", <<staff_id, d>>, <<"added">>)
    /\ now' = now + 1
    /\ UNCHANGED <<users, leaves, events, notifications, kpi_scores, warnings, sessions>>

\* POST /schedule/<id>/delete, for the id of row e
delete(e) ==
    /\ now < MaxOps
    /\ BagIn(e, schedule)
    /\ schedule' = schedule (-) SetToBag({e})
    /\ last' = Request("delete", <<e.staff_id, e.date>>, <<"deleted">>)
    /\ now' = now + 1
    /\ UNCHANGED <<users, leaves, events, notifications, kpi_scores, warnings, sessions>>

\* rows of a bag that satisfy a test, with their multiplicities
BagFilter(B, Keep(_)) ==
    LET S == {e \in BagToSet(B) : Keep(e)}
    IN  [e \in S |-> B[e]]

\* POST /schedule/clear-week: the date is taken as given, not moved to Monday
clear_week(week_start) ==
    /\ now < MaxOps
    /\ LET week_end == week_start + 6
           Kept(e) == ~(e.date >= week_start /\ e.date <= week_end)
           Gone(e) == e.date >= week_start /\ e.date <= week_end
       IN  /\ schedule' = BagFilter(schedule, Kept)
           /\ last' = Request("clear_week", <<week_start>>,
                              <<BagCardinality(BagFilter(schedule, Gone))>>)
    /\ now' = now + 1
    /\ UNCHANGED <<users, leaves, events, notifications, kpi_scores, warnings, sessions>>

----------------------------------------------------------------------------
(* Leave requests                                                          *)

Managers == {u \in UserIds : users[u].role \in {"Practice Manager", "Super Admin"}}

Notification(user_id, notification_type, title) ==
    [user_id |-> user_id, notification_type |-> notification_type,
     title |-> title]

\* POST /leave/request by user u
request_leave(u, start_date, end_date) ==
    /\ now < MaxOps
    /\ Len(leaves) < MaxLeaves
    /\ IF end_date < start_date
       THEN /\ last' = Request("request_leave", <<u>>, <<"invalid">>)
            /\ UNCHANGED <<leaves, notifications>>
       ELSE /\ leaves' = Append(leaves,
                            [staff_id |-> u, start_date |-> start_date,
                             end_date |-> end_date, status |-> "Pending",
                             approved_by |-> NULL, approved_at |-> NULL])
            /\ notifications' = notifications (+)
                 SetToBag({Notification(m, "leave_request", "New Leave Request") :
                            m \in {v \in Managers : users[v].status = "Active"}})
            /\ last' = Request("request_leave", <<u>>, <<Len(leaves) + 1>>)
    /\ now' = now + 1
    /\ UNCHANGED <<users, schedule, events, kpi_scores, warnings, sessions>>

\* mutant: every row of the staff member from the start date on is deleted
Conflicting_NoEnd(sched, leave) ==
    {e \in BagToSet(sched) :
        /\ e.staff_id = leave.staff_id
        /\ e.date >= leave.start_date}

\* the rows the approval deletes (lines 269-276)
Conflicting(sched, leave) ==
    {e \in BagToSet(sched) :
        /\ e.staff_id = leave.staff_id
        /\ e.date >= leave.start_date
        /\ e.date <= leave.end_date}

RemoveConflicting(sched, leave) ==
    LET gone == Conflicting(sched, leave)
        Kept(e) == e \notin gone
    IN  BagFilter(sched, Kept)

\* mutant: the record is built from the request as it was read
LeaveEvent_StatusAsRead(leave_id, leave, by) ==
    [staff_id |-> leave.staff_id, event_type |-> "Leave",
     event_data |-> [leave_id |-> leave_id, status |-> "Pending",
                     start_date |-> leave.start_date,
                     end_date |-> leave.end_date],
     created_by |-> by]

LeaveEvent(leave_id, leave, by) ==
    [staff_id |-> leave.staff_id, event_type |-> "Leave",
     event_data |-> [leave_id |-> leave_id, status |-> leave.status,
                     start_date |-> leave.start_date,
                     end_date |-> leave.end_date],
     created_by |-> by]

\* mutant: only a Rejected request counts as processed
AlreadyProcessed_RejectedOnly(leave) == leave.status = "Rejected"

\* the guard of the handler (lines 245-247)
AlreadyProcessed(leave) == leave.status # "Pending"

\* the new status of a Pending request (lines 252-259)
Decision(submit_approve) == IF submit_approve THEN "Approved" ELSE "Rejected"

\* POST /leave/<leave_id>/approve by manager m
approve(leave_id, submit_approve, m) ==
    /\ now < MaxOps
    /\ leave_id \in 1..Len(leaves)
    /\ m \in Managers
    /\ IF AlreadyProcessed(leaves[leave_id])
       THEN /\ last' = Request("approve", <<leave_id>>, <<"already_processed">>)
            /\ UNCHANGED <<leaves, schedule, events, notifications>>
       ELSE LET decided == [leaves[leave_id] EXCEPT
                               !.status = Decision(submit_approve),
                               !.approved_by = m,
                               !.approved_at = now]
                removed == IF decided.status = "Approved"
                           THEN Conflicting(schedule, decided) ELSE {}
            IN  /\ leaves' = [leaves EXCEPT ![leave_id] = decided]
                /\ schedule' = IF decided.status = "Approved"
                               THEN RemoveConflicting(schedule, decided)
                               ELSE schedule
                /\ events' = events (+) SetToBag({LeaveEvent(leave_id, decided, m)})
                /\ notifications' = notifications (+)
                     SetToBag({Notification(decided.staff_id, "leave_response",
                                            decided.status)})
                /\ last' = Request("approve", <<leave_id>>,
                                   <<decided.status, Cardinality(removed)>>)
    /\ now' = now + 1
    /\ UNCHANGED <<users, kpi_scores, warnings, sessions>>

----------------------------------------------------------------------------
(* Users                                                                   *)

\* POST /users/<user_id>/edit
edit(user_id, role, status) ==
    /\ now < MaxOps
    /\ users' = [users EXCEPT ![user_id].role = role, ![user_id].status = status]
    /\ last' = Request("edit", <<user_id>>, <<role, status>>)
    /\ now' = now + 1
    /\ UNCHANGED <<schedule, leaves, events, notifications, kpi_scores, warnings, sessions>>

----------------------------------------------------------------------------
(* The scheduling and leave system                                         *)

\* inputs the requests are drawn from
WeekStarts == {7 * k + o : k \in 0..(NWeeks - 1), o \in {0, 3}}
ManualStaff == {2, 4}
ManualDates == {0, 5}
LeaveStaff == {2, 4}
LeaveDates == {1, 5}
EditableUsers == {3}
EditRoles == {"Dentist", "Dental Assistant"}

Next ==
    \/ \E w \in WeekStarts : AutoGenerate(w)
    \/ \E u \in ManualStaff, d \in ManualDates : add(u, d, "Staff", "Off", NULL)
    \/ \E e \in BagToSet(schedule) : delete(e)
    \/ \E w \in WeekStarts : clear_week(w)
    \/ \E u \in LeaveStaff, a \in LeaveDates, b \in LeaveDates : request_leave(u, a, b)
    \/ \E l \in 1..MaxLeaves, ok \in BOOLEAN, m \in UserIds : approve(l, ok, m)
    \/ \E u \in EditableUsers, r \in EditRoles, st \in {"Active", "Inactive"} :
          edit(u, r, st)

Spec == Init /\ [][Next]_vars

----------------------------------------------------------------------------
(* Properties of the scheduling and leave system                           *)

CountAt(sched, staff_id, d) ==
    BagCardinality(BagFilter(sched, LAMBDA e : e.staff_id = staff_id /\ e.date = d))

\* C1: in every reachable state the schedule table holds at most one row for
\* each (staff, date) pair.
C1_UniqueStaffDate ==
    \A e \in BagToSet(schedule) : CountAt(schedule, e.staff_id, e.date) = 1

\* a run of the scheduler met rows that were already there, and added others
C1_Witness ==
    /\ last.op = "auto_generate"
    /\ last.result[1] > 0
    /\ last.result[3] > 0

\* C2: no staff member has both an Approved leave request covering a date and
\* a schedule row on that date.
C2_LeaveExclusive ==
    \A i \in 1..Len(leaves) :
        leaves[i].status = "Approved" =>
            \A e \in BagToSet(schedule) :
                ~(/\ e.staff_id = leaves[i].staff_id
                  /\ leaves[i].start_date <= e.date
                  /\ e.date <= leaves[i].end_date)

\* a run of the scheduler skipped a staff member on approved leave and
\* scheduled the other days
C2_Witness ==
    /\ last.op = "auto_generate"
    /\ last.result[2] > 0
    /\ last.result[1] > 0
    /\ \E i \in 1..Len(leaves) : leaves[i].status = "Approved"

\* C3: a leave request changes status only from Pending to Approved or
\* Rejected; a decided request is never changed again, and an approve/reject
\* request on it is refused and changes no schedule row, history record or
\* notification.
C3_DecidedIsFinal ==
    [][\A i \in 1..Len(leaves) :
          /\ Len(leaves') >= Len(leaves)
          /\ leaves'[i].status # leaves[i].status =>
                /\ leaves[i].status = "Pending"
                /\ leaves'[i].status \in {"Approved", "Rejected"}
          /\ leaves[i].status # "Pending" =>
                /\ leaves'[i] = leaves[i]
                /\ (last'.op = "approve" /\ last'.key = <<i>> /\ now' # now) =>
                      /\ last'.result = <<"already_processed">>
                      /\ UNCHANGED <<schedule, events, notifications, leaves>>
      ]_vars

\* a decide request reached a request that was already decided
C3_Witness ==
    /\ last.op = "approve"
    /\ last.result[1] = "already_processed"
    /\ leaves[last.key[1]].status = "Approved"

\* C4: approving a leave of staff s over [d1, d2] removes every schedule row
\* of s dated in [d1, d2] and leaves every other row as it was.
C4_ApprovalCascade ==
    [][\A i \in 1..Len(leaves) :
          (/\ last'.op = "approve" /\ last'.key = <<i>> /\ now' # now
           /\ leaves[i].status = "Pending"
           /\ leaves'[i].status = "Approved") =>
              \A e \in BagToSet(schedule) \cup BagToSet(schedule') :
                  CopiesIn(e, schedule') =
                      IF /\ e.staff_id = leaves[i].staff_id
                         /\ leaves[i].start_date <= e.date
                         /\ e.date <= leaves[i].end_date
                      THEN 0
                      ELSE CopiesIn(e, schedule)
      ]_vars

\* an approval removed rows, and rows of the same staff member outside the
\* range and rows of other staff are still there
C4_Witness ==
    /\ last.op = "approve"
    /\ last.result[1] = "Approved"
    /\ last.result[2] > 0
    /\ LET lv == leaves[last.key[1]]
       IN  /\ \E e \in BagToSet(schedule) :
                 e.staff_id = lv.staff_id /\ e.date > lv.end_date
           /\ \E e \in BagToSet(schedule) :
                 e.staff_id # lv.staff_id /\ e.date = lv.start_date

\* C5: a scheduler run that directly follows a run for the same week creates
\* nothing: created = 0 and the schedule is the same as before it.
C5_SecondRunCreatesNothing ==
    [][(/\ last.op = "auto_generate"
        /\ last'.op = "auto_generate"
        /\ now' # now
        /\ last'.key = last.key) =>
           /\ last'.result[1] = 0
           /\ schedule' = schedule
      ]_vars

\* a run that found every pair it considered already scheduled
C5_Witness ==
    /\ last.op = "auto_generate"
    /\ last.result[1] = 0
    /\ last.result[3] >= 5
    /\ \E e \in BagToSet(schedule) : weekday(e.date) = 5

----------------------------------------------------------------------------
(* KPI scoring, src/app/routes/kpi.py                                      *)

KPI_ROLES == {"Dental Assistant", "Dentist", "Receptionist", "Cleaner"}

SCORABLE_ROLES ==
    {"Dental Assistant", "Dentist", "Receptionist", "Cleaner", "Practice Manager"}

\* the role_kpis table; no route of the application writes it
RoleKPI(id, role, is_active) == [id |-> id, role |-> role, is_active |-> is_active]

role_kpis_table ==
    {RoleKPI(1, "Dentist", TRUE), RoleKPI(2, "Dentist", TRUE),
     RoleKPI(3, "Receptionist", TRUE), RoleKPI(4, "Dentist", FALSE)}

get_kpi_role(user_role) ==
    IF user_role = "Practice Manager" THEN "Dentist" ELSE user_role

\* RoleKPI.query.filter_by(role=kpi_role, is_active=True).all(), as ids
ActiveKpiIds(kpi_role) ==
    {k.id : k \in {x \in role_kpis_table : x.role = kpi_role /\ x.is_active}}

RECURSIVE Gcd(_, _)
Gcd(a, b) == IF b = 0 THEN a ELSE Gcd(b, a % b)

\* met / total * 100 as the fraction it denotes, in lowest terms
Percentage(met, total) ==
    IF total > 0
    THEN LET g == Gcd(met * 100, total)
         IN  [num |-> (met * 100) \div g, den |-> total \div g]
    ELSE [num |-> 0, den |-> 1]

Below70(percentage) == percentage.num < 70 * percentage.den

None == [none |-> TRUE]

\* the rows calculate_monthly_score reads (lines 60-65)
ScoresOf(staff_id, kpi_ids, month, year) ==
    {r \in kpi_scores :
        /\ r.staff_id = staff_id
        /\ r.kpi_id \in kpi_ids
        /\ r.month = month
        /\ r.year = year}

\* the role test of calculate_monthly_score (line 48)
HasKpiRole(role) == role \in KPI_ROLES

calculate_monthly_score(staff_id, month, year) ==
    IF staff_id \notin UserIds \/ ~HasKpiRole(users[staff_id].role)
    THEN None
    ELSE LET kpi_ids == ActiveKpiIds(get_kpi_role(users[staff_id].role))
             scores == ScoresOf(staff_id, kpi_ids, month, year)
             met == Cardinality({r \in scores : r.score = 1})
             total == Cardinality(scores)
         IN  IF kpi_ids = {} THEN None
             ELSE IF scores = {} THEN None
             ELSE [none |-> FALSE, met |-> met, total |-> total,
                   percentage |-> Percentage(met, total),
                   total_kpis |-> Cardinality(kpi_ids),
                   scored |-> (total = Cardinality(kpi_ids))]

\* mutant: a preceding month without a score counts as a failed month
ShouldWarn_NoneFails(prev_score) ==
    prev_score.none \/ Below70(prev_score.percentage)

\* the test of check_kpi_warning (line 386)
ShouldWarn(prev_score) ==
    ~prev_score.none /\ Below70(prev_score.percentage)

PrevMonth(month) == IF month > 1 THEN month - 1 ELSE 12
\* mutant: the month before January is taken from the same year
PrevYear_SameYear(month, year) == year

PrevYear(month, year) == IF month > 1 THEN year ELSE year - 1

KpiWarning(staff_id, prev_month, month) ==
    [staff_id |-> staff_id, warning_type |-> "KPI_Failed",
     reason |-> <<prev_month, month>>, auto_generated |-> TRUE, issued_by |-> 1]

\* check_kpi_warning: whether it issues the warning and its notification
check_kpi_warning(staff_id, month, year) ==
    LET prev_score == calculate_monthly_score(staff_id, PrevMonth(month),
                                              PrevYear(month, year))
    IN  ShouldWarn(prev_score)

\* mutant: nothing is deleted before the new rows are inserted
ScoresKept_All(staff_id, month, year) == kpi_scores

\* KPIScore.query.filter_by(staff_id, month, year).delete(): the rows left
ScoresKept(staff_id, month, year) ==
    {r \in kpi_scores :
        ~(r.staff_id = staff_id /\ r.month = month /\ r.year = year)}

KPIScore(staff_id, kpi_id, month, year, score_value) ==
    [staff_id |-> staff_id, kpi_id |-> kpi_id, month |-> month,
     year |-> year, score |-> score_value]

\* POST /kpi/score.  The form carries a value for the KPIs in `scored`; the
\* value is 1 for those in `met` and 0 for the others.
score(staff_id, month, year, scored, met) ==
    /\ now < MaxOps
    /\ UNCHANGED <<users, schedule, leaves, sessions>>
    /\ IF staff_id \notin UserIds \/ users[staff_id].role \notin SCORABLE_ROLES
       THEN /\ last' = Request("score", <<staff_id, month, year, scored, met>>,
                               <<"invalid">>)
            /\ UNCHANGED <<kpi_scores, events, notifications, warnings>>
       ELSE LET role_kpis == ActiveKpiIds(get_kpi_role(users[staff_id].role))
                saved == {k \in role_kpis : k \in scored}
                met_count == Cardinality({k \in saved : k \in met})
                total_count == Cardinality(saved)
                percentage == Percentage(met_count, total_count)
                kept == ScoresKept(staff_id, month, year)
                rows == {KPIScore(staff_id, k, month, year,
                                  IF k \in met THEN 1 ELSE 0) : k \in saved}
            IN  /\ kpi_scores' = kept \cup rows
                /\ events' = events (+) SetToBag({
                       [staff_id |-> staff_id, event_type |-> "KPI_Score",
                        event_data |-> [month |-> month, year |-> year,
                                        met |-> met_count, total |-> total_count,
                                        percentage |-> percentage],
                        created_by |-> 1]})
                /\ LET warn == Below70(percentage)
                               /\ check_kpi_warning(staff_id, month, year)'
                   IN  /\ warnings' =
                            IF warn
                            THEN warnings (+) SetToBag({
                                   KpiWarning(staff_id, PrevMonth(month), month)})
                            ELSE warnings
                       /\ notifications' =
                            (notifications (+) SetToBag({
                                Notification(staff_id, "kpi_score", <<month, year>>)}))
                            (+) (IF warn
                                 THEN SetToBag({Notification(staff_id, "warning",
                                                 "Performance Warning Issued")})
                                 ELSE EmptyBag)
                /\ last' = Request("score", <<staff_id, month, year, scored, met>>,
                                   <<"saved", percentage,
                                     Cardinality(kpi_scores \ kept)>>)
    /\ now' = now + 1

\* inputs the scoring requests are drawn from: December of one year and the
\* two months after it
Periods == {<<12, 2025>>, <<1, 2026>>, <<2, 2026>>}
ScoredStaff == {1, 2, 3, 4}

\* the forms submitted: (KPIs given a value, KPIs marked met) -- nothing
\* scored, one KPI scored and not met, two scored and one met, two scored
\* and both met -- as far as the page of the staff member's role offers them
FormChoices == {<<{}, {}>>, <<{1}, {}>>, <<{1, 2}, {1}>>, <<{1, 2}, {1, 2}>>}

Forms(staff_id) ==
    LET ids == ActiveKpiIds(get_kpi_role(users[staff_id].role))
    IN  {f \in FormChoices : f[1] \subseteq ids}

NextKPI ==
    \E u \in ScoredStaff, p \in Periods :
        \E f \in Forms(u) : score(u, p[1], p[2], f[1], f[2])

SpecKPI == Init /\ [][NextKPI]_vars

----------------------------------------------------------------------------
(* Properties of KPI scoring                                               *)

\* the scores recorded for a staff member in a period on the KPI set of the
\* staff member's role, the Practice Manager's role read as Dentist
RecordedIn(scores, staff_id, month, year) ==
    {r \in scores :
        /\ r.staff_id = staff_id /\ r.month = month /\ r.year = year
        /\ \E k \in role_kpis_table :
              /\ k.id = r.kpi_id /\ k.is_active
              /\ k.role = (IF users[staff_id].role = "Practice Manager"
                           THEN "Dentist" ELSE users[staff_id].role)}

Recorded(staff_id, month, year) == RecordedIn(kpi_scores, staff_id, month, year)

MetIn(rows) == Cardinality({r \in rows : r.score = 1})

\* M / N * 100 < 70 for the M met of the N rows
RowsBelow70(rows) == 100 * MetIn(rows) < 70 * Cardinality(rows)

\* the step is a scoring submission that was saved
ScoreSaved == last'.op = "score" /\ now' # now /\ last'.result[1] = "saved"

IssuedWarnings(table, staff_id) ==
    BagCardinality(BagFilter(table, LAMBDA w :
        w.staff_id = staff_id /\ w.warning_type = "KPI_Failed" /\ w.auto_generated))

WarningNotes(table, staff_id) ==
    BagCardinality(BagFilter(table, LAMBDA n :
        n.user_id = staff_id /\ n.notification_type = "warning"))

\* C6: a submission for month M whose aggregate is below 70, the month before
\* having a recorded aggregate below 70 too, issues exactly one automatic
\* KPI_Failed warning and exactly one warning notification to that staff
\* member.
C6_TwoMonthsWarn ==
    [][ScoreSaved =>
          LET s == last'.key[1]
              m == last'.key[2]
              y == last'.key[3]
              cur == RecordedIn(kpi_scores', s, m, y)
              prev == RecordedIn(kpi_scores', s, PrevMonth(m), PrevYear(m, y))
          IN  (/\ cur # {} /\ RowsBelow70(cur)
               /\ prev # {} /\ RowsBelow70(prev)) =>
                  /\ BagCardinality(warnings') = BagCardinality(warnings) + 1
                  /\ IssuedWarnings(warnings', s) = IssuedWarnings(warnings, s) + 1
                  /\ WarningNotes(notifications', s) = WarningNotes(notifications, s) + 1
      ]_vars

\* C7: a submission issues no warning when the scored month is at 70 or
\* above, and none when it is below 70 while the month before has no recorded
\* aggregate or one of 70 or above.
C7_NoWarning ==
    [][ScoreSaved =>
          LET s == last'.key[1]
              m == last'.key[2]
              y == last'.key[3]
              cur == RecordedIn(kpi_scores', s, m, y)
              prev == RecordedIn(kpi_scores', s, PrevMonth(m), PrevYear(m, y))
          IN  (/\ cur # {}
               /\ \/ ~RowsBelow70(cur)
                  \/ prev = {}
                  \/ ~RowsBelow70(prev)) =>
                  /\ warnings' = warnings
                  /\ WarningNotes(notifications', s) = WarningNotes(notifications, s)
      ]_vars

\* a month was scored below 70 with nothing recorded for the month before,
\* and no warning exists
C7_Witness ==
    /\ last.op = "score"
    /\ last.result[1] = "saved"
    /\ LET s == last.key[1]
           m == last.key[2]
           y == last.key[3]
       IN  /\ Recorded(s, m, y) # {}
           /\ RowsBelow70(Recorded(s, m, y))
           /\ Recorded(s, PrevMonth(m), PrevYear(m, y)) = {}
           /\ users[s].role = "Dentist"
    /\ warnings = EmptyBag

\* C8: after a submission for (staff, month, year) the rows of that period
\* are exactly the rows of the submission, and all other rows are unchanged.
C8_Replaced ==
    [][ScoreSaved =>
          LET s == last'.key[1]
              m == last'.key[2]
              y == last'.key[3]
              scored == last'.key[4]
              met == last'.key[5]
              InPeriod(r) == r.staff_id = s /\ r.month = m /\ r.year = y
          IN  /\ {r \in kpi_scores' : InPeriod(r)} =
                   {[staff_id |-> s, kpi_id |-> k, month |-> m, year |-> y,
                     score |-> IF k \in met THEN 1 ELSE 0] : k \in scored}
              /\ {r \in kpi_scores' : ~InPeriod(r)} =
                   {r \in kpi_scores : ~InPeriod(r)}
      ]_vars

\* a period that held two rows was scored again with one KPI left unscored,
\* while another period holds rows too
C8_Witness ==
    /\ last.op = "score"
    /\ last.result[1] = "saved"
    /\ last.result[3] = 2
    /\ LET s == last.key[1]
           m == last.key[2]
           y == last.key[3]
       IN  /\ Cardinality({r \in kpi_scores :
                             r.staff_id = s /\ r.month = m /\ r.year = y}) = 1
           /\ \E r \in kpi_scores : ~(r.staff_id = s /\ r.month = m /\ r.year = y)

\* C9: with N >= 1 recorded scores of which M are met the aggregator returns
\* percentage = M / N * 100; with no recorded score, or no active KPI
\* definition for the role, it returns the 'no score' result.
C9_Percentage ==
    \A u \in UserIds, p \in Periods :
        LET rows == Recorded(u, p[1], p[2])
            N == Cardinality(rows)
            M == MetIn(rows)
            r == calculate_monthly_score(u, p[1], p[2])
        IN  IF N >= 1
            THEN /\ ~r.none
                 /\ r.percentage.num * N = 100 * M * r.percentage.den
            ELSE r.none

\* C10: a Practice Manager with recorded scores on the Dentist KPI set gets
\* an aggregate over those scores from the aggregator, not 'no score'.
C10_ManagerAlias ==
    \A u \in UserIds, p \in Periods :
        (/\ users[u].role = "Practice Manager"
         /\ \E r \in kpi_scores :
               /\ r.staff_id = u /\ r.month = p[1] /\ r.year = p[2]
               /\ r.kpi_id \in ActiveKpiIds("Dentist")) =>
            LET res == calculate_monthly_score(u, p[1], p[2])
            IN  /\ ~res.none
                /\ res.total = Cardinality(ScoresOf(u, ActiveKpiIds("Dentist"),
                                                    p[1], p[2]))

----------------------------------------------------------------------------
(* The scheduler on a full practice roster                                 *)

\* calendar weeks the scheduler is run for, from the week of day 0 on
SchedWeeks == 3

Nzwane == <<"N"," ","z","w","a","n","e">>
Nel == <<"N","e","l">>
Ann == <<"A","n","n">>
Bea == <<"B","e","a">>
Sue == <<"S","u","e">>
Dan == <<"D","a","n">>

\* a practice with up to three dentists, two assistants and a receptionist,
\* as the users routes create them; users 3 and 4 may have been deactivated
PracticeRoster(status3, status4) ==
    1 :> User("Super Admin", "Active", DrBuleni)
    @@ 2 :> User("Dentist", "Active", DrRamakuwela)
    @@ 3 :> User("Dentist", status3, Nzwane)
    @@ 4 :> User("Dentist", status4, Nel)
    @@ 5 :> User("Dental Assistant", "Active", Ann)
    @@ 6 :> User("Dental Assistant", "Active", Bea)
    @@ 7 :> User("Receptionist", "Active", Sue)
    @@ 8 :> User("Dental Assistant", "Inactive", Dan)

PracticeRosters ==
    {PracticeRoster("Active", "Active"), PracticeRoster("Active", "Inactive"),
     PracticeRoster("Inactive", "Inactive")}

\* a leave request as request_leave and approve leave it once decided
DecidedLeave(staff_id, start_date, end_date, status) ==
    [staff_id |-> staff_id, start_date |-> start_date, end_date |-> end_date,
     status |-> status, approved_by |-> 1, approved_at |-> 0]

AssistantLeave == DecidedLeave(5, 1, 2, "Approved")
DentistLeave == DecidedLeave(2, 4, 5, "Approved")
ReceptionLeave == DecidedLeave(7, 5, 6, "Approved")
RefusedLeave == DecidedLeave(6, 0, 6, "Rejected")

\* the leave_requests tables the runs start from
LeaveTables ==
    {<<>>, <<AssistantLeave>>, <<DentistLeave>>, <<ReceptionLeave>>,
     <<RefusedLeave>>, <<AssistantLeave, DentistLeave>>,
     <<DentistLeave, ReceptionLeave>>}

\* the history records and notifications the handlers wrote for these leaves
LeaveTrailEvents(table) ==
    SetToBag({LeaveEvent(i, table[i], 1) : i \in 1..Len(table)})

LeaveTrailNotifications(table) ==
    LET n == Len(table)
        asked == IF n = 0 THEN EmptyBag
                 ELSE Notification(1, "leave_request", "New Leave Request") :> n
        Answers == {Notification(table[i].staff_id, "leave_response",
                                 table[i].status) : i \in 1..n}
        AnswerCount(a) ==
            Cardinality({i \in 1..n :
                a = Notification(table[i].staff_id, "leave_response",
                                 table[i].status)})
    IN  asked (+) [a \in Answers |-> AnswerCount(a)]

InitSched ==
    /\ users \in PracticeRosters
    /\ schedule = EmptyBag
    /\ leaves \in LeaveTables
    /\ events = LeaveTrailEvents(leaves)
    /\ notifications = LeaveTrailNotifications(leaves)
    /\ kpi_scores = {}
    /\ warnings = EmptyBag
    /\ now = 0
    /\ last = NoRequest
    /\ sessions = [w \in Workers |-> Idle]

\* the manual entries made before or between the runs: (staff, date, room)
ManualEntries == {<<2, 5, "Pink Room">>, <<5, 0, NULL>>, <<6, 3, "Black Room">>}

NextSched ==
    \/ \E k \in 0..(SchedWeeks - 1) : AutoGenerate(7 * k)
    \/ \E m \in ManualEntries : add(m[1], m[2], users[m[1]].role, "Off", m[3])

SpecSched == InitSched /\ [][NextSched]_vars

----------------------------------------------------------------------------
(* Properties of the scheduler                                             *)

\* the step is a run of the scheduler
SchedulerRan == last'.op = "auto_generate" /\ now' # now

\* Active and not the Super Admin
Eligible(u) == users[u].status = "Active" /\ users[u].role # "Super Admin"

OnApprovedLeave(u, d) ==
    \E i \in 1..Len(leaves) :
        /\ leaves[i].staff_id = u /\ leaves[i].status = "Approved"
        /\ leaves[i].start_date <= d /\ d <= leaves[i].end_date

GroupNames == {"Dentists", "Dental Assistants", "Other"}

GroupOf(u) ==
    IF users[u].role = "Dentist" THEN "Dentists"
    ELSE IF users[u].role = "Dental Assistant" THEN "Dental Assistants"
    ELSE "Other"

\* the staff of a group available on a date; the group's list holds them by id
AvailableOn(g, d) ==
    {u \in UserIds : Eligible(u) /\ GroupOf(u) = g /\ ~OnApprovedLeave(u, d)}

\* 0-based position of u in the list of the members of S
PositionIn(S, u) == Cardinality({v \in S : v < u})

MemberAt(S, k) == CHOOSE u \in S : PositionIn(S, u) = k

RowsOn(sched, d) == {e \in BagToSet(sched) : e.date = d}

\* the rows a step added to the schedule table
NewRows == BagToSet(schedule' (-) schedule)

\* C11: a run on a week without Saturday entries gives each group with
\* n >= 1 available staff exactly one Saturday entry, for the member at index
\* (ISO week number mod n) of the group's available list, Morning
\* 08:00-13:00; a group with nobody available gets no Saturday entry.
C11_SaturdayRotation ==
    [][SchedulerRan =>
          LET saturday == last'.key[1] + 5
              week_number == isocalendar_week(saturday)
          IN  RowsOn(schedule, saturday) = {} =>
                 \A g \in GroupNames :
                    LET S == AvailableOn(g, saturday)
                        n == Cardinality(S)
                        got == {e \in RowsOn(schedule', saturday) :
                                   GroupOf(e.staff_id) = g}
                    IN  IF n >= 1
                        THEN /\ Cardinality(got) = 1
                             /\ \A e \in got :
                                   /\ e.staff_id = MemberAt(S, week_number % n)
                                   /\ CopiesIn(e, schedule') = 1
                                   /\ e.shift_type = "Morning"
                                   /\ e.start_time = 800
                                   /\ e.end_time = 1300
                        ELSE got = {}
      ]_vars

\* a run gave the three groups their Saturday entry, the dentist being the
\* one at a position other than the first of several available
C11_Witness ==
    /\ last.op = "auto_generate"
    /\ last.result[3] = 0
    /\ LET saturday == last.key[1] + 5
           D == AvailableOn("Dentists", saturday)
       IN  /\ Cardinality(RowsOn(schedule, saturday)) = 3
           /\ Cardinality(D) >= 2
           /\ \E e \in RowsOn(schedule, saturday) :
                 e.staff_id \in D /\ PositionIn(D, e.staff_id) > 0

\* the Saturday entries of dentists that the scheduler wrote
SaturdayDuty(d) ==
    {e \in RowsOn(schedule, d) :
        users[e.staff_id].role = "Dentist" /\ e.shift_type = "Morning"}

\* C12: with the available-dentist list fixed at length n, the runs for n
\* consecutive calendar weeks select every dentist of the list exactly once
\* as Saturday dentist, for any starting week, also across the turn of the
\* ISO year.
C12_RotationCoversAll ==
    \A k \in 0..(SchedWeeks - 1) :
        LET D == {u \in UserIds : Eligible(u) /\ users[u].role = "Dentist"}
            n == Cardinality(D)
            saturdays == {7 * (k + j) + 5 : j \in 0..(n - 1)}
        IN  (/\ n >= 1
             /\ k + n <= SchedWeeks
             /\ \A d \in saturdays : AvailableOn("Dentists", d) = D
             /\ \A d \in saturdays : SaturdayDuty(d) # {}) =>
                \A u \in D :
                    Cardinality({d \in saturdays :
                        \E e \in SaturdayDuty(d) : e.staff_id = u}) = 1

\* C13: a Saturday entry the run creates for a dental assistant carries the
\* room of the selected dentist's Saturday entry, also when that entry was
\* there before the run; with no dentist available it carries
\* rooms[(ISO week number) mod 3].
C13_SaturdaySameRoom ==
    [][SchedulerRan =>
          LET saturday == last'.key[1] + 5
              week_number == isocalendar_week(saturday)
              D == AvailableOn("Dentists", saturday)
              n == Cardinality(D)
          IN  \A r \in NewRows :
                 (r.date = saturday /\ users[r.staff_id].role = "Dental Assistant") =>
                    IF n >= 1
                    THEN LET duty == {e \in RowsOn(schedule', saturday) :
                                         e.staff_id = MemberAt(D, week_number % n)}
                         IN  /\ duty # {}
                             /\ \A e \in duty : r.room = e.room
                    ELSE r.room = PRACTICE_ROOMS[(week_number % 3) + 1]
      ]_vars

\* the configured keys a name matches, as positions in the dentist-room table
MatchingKeys(full_name) ==
    {i \in 1..Len(DENTIST_ROOMS) :
        IsSubstr(LowerStr(DENTIST_ROOMS[i][1]), LowerStr(full_name))}

\* C14: every entry the scheduler creates for a dentist whose name matches a
\* configured key carries that key's room (the first such key of the table),
\* on weekdays and on Saturday and on every run; a dentist whose name
\* matches no key gets a null room.
C14_FixedDentistRoom ==
    [][SchedulerRan =>
          \A r \in NewRows :
              users[r.staff_id].role = "Dentist" =>
                  LET K == MatchingKeys(users[r.staff_id].full_name)
                  IN  IF K = {} THEN r.room = NULL
                      ELSE r.room =
                             DENTIST_ROOMS[CHOOSE i \in K : \A j \in K : i <= j][2]
      ]_vars

\* a repeated run has left weekday and Saturday entries in the Pink Room for
\* the dentist matching the key Zwane, and entries without a room for the
\* dentist matching no key
C14_Witness ==
    /\ last.op = "auto_generate"
    /\ now >= 2
    /\ \E e \in BagToSet(schedule) :
          e.staff_id = 3 /\ weekday(e.date) = 5 /\ e.room = "Pink Room"
          /\ e.shift_type = "Morning"
    /\ \E e \in BagToSet(schedule) :
          e.staff_id = 3 /\ weekday(e.date) < 5 /\ e.room = "Pink Room"
    /\ \E e \in BagToSet(schedule) :
          e.staff_id = 4 /\ weekday(e.date) = 5 /\ e.room = NULL
          /\ e.shift_type = "Morning"

\* C15: after a run for a week every Active non-Super-Admin staff member has
\* an entry on every weekday of the week not covered by an approved leave of
\* theirs, and each weekday entry the run created is Full Day, 08:00-17:00.
C15_WeekdaysCovered ==
    [][SchedulerRan =>
          LET monday == last'.key[1]
          IN  /\ \A u \in UserIds, d \in monday..(monday + 4) :
                    (Eligible(u) /\ ~OnApprovedLeave(u, d)) =>
                        \E e \in RowsOn(schedule', d) : e.staff_id = u
              /\ \A r \in NewRows :
                    r.date <= monday + 4 =>
                        /\ r.shift_type = "Full Day"
                        /\ r.start_time = 800
                        /\ r.end_time = 1700
      ]_vars

\* a run created entries, skipped a day of approved leave and skipped a day
\* that had an entry, and the Inactive user has none
C15_Witness ==
    /\ last.op = "auto_generate"
    /\ last.result[1] > 0
    /\ last.result[2] > 0
    /\ last.result[3] > 0
    /\ ~\E e \in BagToSet(schedule) : e.staff_id = 8
    /\ \E e \in BagToSet(schedule) : e.staff_id = 6 /\ e.shift_type = "Full Day"

\* C16: a weekday entry the run creates for a dental assistant carries
\* rooms[(d + i) mod 3], d the weekday index and i the assistant's position
\* among the assistants not on approved leave that day; an entry it creates
\* for staff of the Other group carries no room.
C16_AssistantRooms ==
    [][SchedulerRan =>
          LET monday == last'.key[1]
          IN  \A r \in NewRows :
                 /\ (r.date <= monday + 4
                     /\ users[r.staff_id].role = "Dental Assistant") =>
                       r.room = PRACTICE_ROOMS[
                           (((r.date - monday)
                             + PositionIn(AvailableOn("Dental Assistants", r.date),
                                          r.staff_id)) % 3) + 1]
                 /\ GroupOf(r.staff_id) = "Other" => r.room = NULL
      ]_vars

\* the second assistant was scheduled on a day the first was on approved
\* leave (position 0) and on a day the first already had an entry (position
\* 1), and the receptionist has an entry without a room
C16_Witness ==
    /\ last.op = "auto_generate"
    /\ OnApprovedLeave(5, 1)
    /\ \E e \in RowsOn(schedule, 1) :
          e.staff_id = 6 /\ e.room = PRACTICE_ROOMS[2] /\ e.shift_type = "Full Day"
    /\ \E e \in RowsOn(schedule, 0) : e.staff_id = 5 /\ e.shift_type = "Off"
    /\ \E e \in RowsOn(schedule, 0) :
          e.staff_id = 6 /\ e.room = PRACTICE_ROOMS[2] /\ e.shift_type = "Full Day"
    /\ \E e \in RowsOn(schedule, 0) : e.staff_id = 7 /\ e.room = NULL

\* C17: the counters of a run account for every (eligible staff, date) pair:
\* created counts the entries added, skippedLeave the pairs on approved
\* leave, skippedExisting the pairs that had an entry, and for Mon-Fri
\* created + skippedLeave + skippedExisting = 5 * (eligible staff).
C17_CountersAccount ==
    [][SchedulerRan =>
          LET monday == last'.key[1]
              staff == {u \in UserIds : Eligible(u)}
              pairs == staff \X (monday..(monday + 4))
              on_leave == {p \in pairs : OnApprovedLeave(p[1], p[2])}
              existing == {p \in pairs :
                              /\ ~OnApprovedLeave(p[1], p[2])
                              /\ \E e \in RowsOn(schedule, p[2]) : e.staff_id = p[1]}
              created_weekdays == {r \in NewRows : r.date <= monday + 4}
          IN  /\ last'.result[1] =
                    BagCardinality(schedule') - BagCardinality(schedule)
              /\ last'.result[2] = Cardinality(on_leave)
              /\ last'.result[3] = Cardinality(existing)
              /\ Cardinality(created_weekdays) + last'.result[2] + last'.result[3]
                    = 5 * Cardinality(staff)
      ]_vars

----------------------------------------------------------------------------
(* Properties of manual schedule maintenance                               *)

\* C20: a manual add for (staff, date) is refused and leaves the schedule
\* unchanged when the staff member has an approved leave covering the date
\* or has an entry for it already; otherwise it inserts exactly one entry,
\* for that staff member and date.  A manual delete removes exactly the
\* entry addressed and changes no other entry and no leave request.
C20_ManualAddDelete ==
    [][/\ (last'.op = "add" /\ now' # now) =>
             LET u == last'.key[1]
                 d == last'.key[2]
             IN  IF \/ OnApprovedLeave(u, d)
                    \/ \E e \in RowsOn(schedule, d) : e.staff_id = u
                 THEN /\ schedule' = schedule
                      /\ last'.result # <<"added">>
                 ELSE users[u].status = "Active" =>
                         /\ last'.result = <<"added">>
                         /\ \E r \in NewRows :
                               /\ r.staff_id = u /\ r.date = d
                               /\ schedule' = schedule (+) SetToBag({r})
       /\ (last'.op = "delete" /\ now' # now) =>
             /\ leaves' = leaves
             /\ \E e \in BagToSet(schedule) :
                   /\ <<e.staff_id, e.date>> = last'.key
                   /\ schedule' (+) SetToBag({e}) = schedule
      ]_vars

\* an add was refused for approved leave while the staff member's request
\* stands Approved
C20_Witness ==
    /\ last.op = "add"
    /\ last.result = <<"on_leave">>
    /\ OnApprovedLeave(last.key[1], last.key[2])
    /\ ~\E e \in BagToSet(schedule) : e.staff_id = last.key[1]

----------------------------------------------------------------------------
(* Requests served concurrently: one action per transaction.  A handler    *)
(* that commits several times is several actions; what another request can *)
(* read between two of them is the state of the tables at that point.      *)

Handling(w, pc) == sessions[w].pc = pc

\* POST /leave/<leave_id>/approve up to its first commit (lines 243-264)
approve_commit_status(w, leave_id, submit_approve, m) ==
    /\ now < MaxOps
    /\ Handling(w, "idle")
    /\ leave_id \in 1..Len(leaves)
    /\ m \in Managers
    /\ IF AlreadyProcessed(leaves[leave_id])
       THEN /\ last' = Request("approve", <<leave_id>>, <<"already_processed">>)
            /\ UNCHANGED <<leaves, sessions>>
       ELSE LET decided == [leaves[leave_id] EXCEPT
                               !.status = Decision(submit_approve),
                               !.approved_by = m,
                               !.approved_at = now]
            IN  /\ leaves' = [leaves EXCEPT ![leave_id] = decided]
                /\ sessions' = [sessions EXCEPT ![w] =
                       Session(IF decided.status = "Approved"
                               THEN "remove_schedules" ELSE "record_event",
                               <<leave_id, m, 0>>, {})]
                /\ UNCHANGED last
    /\ now' = now + 1
    /\ UNCHANGED <<users, schedule, events, notifications, kpi_scores, warnings>>

\* ... the removal of the conflicting schedules and its commit (lines 266-277)
approve_remove_schedules(w) ==
    /\ Handling(w, "remove_schedules")
    /\ LET leave_id == sessions[w].locals[1]
           leave == leaves[leave_id]
       IN  /\ schedule' = RemoveConflicting(schedule, leave)
           /\ sessions' = [sessions EXCEPT ![w] =
                  Session("record_event",
                          <<leave_id, sessions[w].locals[2],
                            Cardinality(Conflicting(schedule, leave))>>, {})]
    /\ UNCHANGED <<users, leaves, events, notifications, kpi_scores, warnings,
                   now, last>>

\* ... the performance event and its commit (lines 279-294)
approve_record_event(w) ==
    /\ Handling(w, "record_event")
    /\ LET leave_id == sessions[w].locals[1]
       IN  events' = events (+)
               SetToBag({LeaveEvent(leave_id, leaves[leave_id], sessions[w].locals[2])})
    /\ sessions' = [sessions EXCEPT ![w].pc = "notify"]
    /\ UNCHANGED <<users, schedule, leaves, notifications, kpi_scores, warnings,
                   now, last>>

\* ... the notification to the employee and its commit (lines 302-312)
approve_notify(w) ==
    /\ Handling(w, "notify")
    /\ LET leave_id == sessions[w].locals[1]
           leave == leaves[leave_id]
       IN  /\ notifications' = notifications (+)
                SetToBag({Notification(leave.staff_id, "leave_response", leave.status)})
           /\ last' = Request("approve", <<leave_id>>,
                              <<leave.status, sessions[w].locals[3]>>)
    /\ sessions' = [sessions EXCEPT ![w] = Idle]
    /\ UNCHANGED <<users, schedule, leaves, events, kpi_scores, warnings, now>>

\* the blocks of auto_generate_schedule in source order, then its commit
RunBlocks ==
    <<"dentists", "other_staff", "dental_assistants", "saturday_dentist",
      "saturday_assistant", "saturday_other", "commit">>

BlockAfter(block) ==
    RunBlocks[(CHOOSE i \in 1..Len(RunBlocks) : RunBlocks[i] = block) + 1]

\* the rows a block adds to the session, given the rows its queries see
BlockRows(block, sched, weekdays, saturday) ==
    CASE block = "dentists" -> DentistRows(sched, weekdays)
      [] block = "other_staff" -> OtherRows(sched, weekdays)
      [] block = "dental_assistants" -> AssistantRows(sched, weekdays)
      [] block = "saturday_dentist" -> SaturdayDentistRows(sched, saturday)
      [] block = "saturday_assistant" -> SaturdayAssistantRows(sched, saturday)
      [] block = "saturday_other" -> SaturdayOtherRows(sched, saturday)

BlockSkippedLeave(block, weekdays) ==
    CASE block = "dentists" -> Cardinality(LeavePairs(dentists, weekdays))
      [] block = "other_staff" -> Cardinality(LeavePairs(other_staff, weekdays))
      [] OTHER -> 0

BlockSkippedExists(block, sched, weekdays) ==
    CASE block = "dentists" -> Cardinality(ExistsPairs(sched, dentists, weekdays))
      [] block = "other_staff" -> Cardinality(ExistsPairs(sched, other_staff, weekdays))
      [] block = "dental_assistants" -> Cardinality(AssistantExists(sched, weekdays))
      [] OTHER -> 0

\* POST /schedule/auto-generate: the form is read and the week moved to Monday
run_begin(w, week_start) ==
    /\ now < MaxOps
    /\ Handling(w, "idle")
    /\ sessions' = [sessions EXCEPT ![w] =
           Session("dentists", <<week_start - weekday(week_start), 0, 0>>, {})]
    /\ now' = now + 1
    /\ UNCHANGED <<users, schedule, leaves, events, notifications, kpi_scores,
                   warnings, last>>

\* one block of the run: its queries read the committed rows and the rows of
\* its own session
run_block(w) ==
    /\ sessions[w].pc \in SeqToSet(RunBlocks) \ {"commit"}
    /\ LET block == sessions[w].pc
           week_dates == get_week_dates(sessions[w].locals[1])
           weekdays == SubSeq(week_dates, 1, 5)
           seen == AddRows(schedule, sessions[w].pending)
       IN  sessions' = [sessions EXCEPT ![w] =
               Session(BlockAfter(block),
                       <<sessions[w].locals[1],
                         sessions[w].locals[2] + BlockSkippedLeave(block, weekdays),
                         sessions[w].locals[3]
                           + BlockSkippedExists(block, seen, weekdays)>>,
                       sessions[w].pending
                         \cup BlockRows(block, seen, weekdays, week_dates[6]))]
    /\ UNCHANGED <<users, schedule, leaves, events, notifications, kpi_scores,
                   warnings, now, last>>

\* mutant: the table has no unique constraint
UniqueViolation_Unchecked(sched, rows) == FALSE

\* UniqueConstraint('staff_id', 'date'): the insert of some row is rejected
UniqueViolation(sched, rows) ==
    \E r \in rows : Existing(sched, r.staff_id, r.date)

\* db.session.commit() of the run: an IntegrityError ends the request and the
\* session is rolled back
run_commit(w) ==
    /\ Handling(w, "commit")
    /\ IF UniqueViolation(schedule, sessions[w].pending)
       THEN /\ last' = Request("auto_generate", <<sessions[w].locals[1]>>,
                               <<"IntegrityError">>)
            /\ UNCHANGED schedule
       ELSE /\ schedule' = AddRows(schedule, sessions[w].pending)
            /\ last' = Request("auto_generate", <<sessions[w].locals[1]>>,
                               <<Cardinality(sessions[w].pending),
                                 sessions[w].locals[2], sessions[w].locals[3]>>)
    /\ sessions' = [sessions EXCEPT ![w] = Idle]
    /\ UNCHANGED <<users, leaves, events, notifications, kpi_scores, warnings, now>>

\* the leave requests waiting for a decision when the requests come in
PendingLeave(staff_id, start_date, end_date) ==
    [staff_id |-> staff_id, start_date |-> start_date, end_date |-> end_date,
     status |-> "Pending", approved_by |-> NULL, approved_at |-> NULL]

LeaveQueues ==
    {<<PendingLeave(4, 1, 2)>>, <<PendingLeave(2, 5, 5)>>,
     <<PendingLeave(4, 1, 2), PendingLeave(2, 5, 5)>>}

InitTxn ==
    /\ users = Roster
    /\ schedule = EmptyBag
    /\ leaves \in LeaveQueues
    /\ events = EmptyBag
    /\ notifications =
           [n \in {Notification(m, "leave_request", "New Leave Request") :
                      m \in {1, 3}} |-> Len(leaves)]
    /\ kpi_scores = {}
    /\ warnings = EmptyBag
    /\ now = 0
    /\ last = NoRequest
    /\ sessions = [w \in Workers |-> Idle]

NextTxn ==
    \/ \E w \in Workers : run_begin(w, 0)
    \/ \E w \in Workers : run_block(w)
    \/ \E w \in Workers : run_commit(w)
    \/ \E w \in Workers, l \in 1..2, ok \in BOOLEAN :
          approve_commit_status(w, l, ok, 3)
    \/ \E w \in Workers : approve_remove_schedules(w)
    \/ \E w \in Workers : approve_record_event(w)
    \/ \E w \in Workers : approve_notify(w)

SpecTxn == InitTxn /\ [][NextTxn]_vars

----------------------------------------------------------------------------
(* Properties of concurrent requests                                       *)

\* C18: a leave approval is atomic: in no committed state is a request
\* Approved while an entry of its staff member inside [start, end] exists,
\* nor decided while its history record or its notification is missing.
C18_ApprovalAtomic ==
    \A i \in 1..Len(leaves) :
        /\ leaves[i].status = "Approved" =>
              ~\E e \in BagToSet(schedule) :
                  /\ e.staff_id = leaves[i].staff_id
                  /\ leaves[i].start_date <= e.date
                  /\ e.date <= leaves[i].end_date
        /\ leaves[i].status # "Pending" =>
              /\ \E e \in BagToSet(events) :
                    e.event_type = "Leave" /\ e.event_data.leave_id = i
              /\ \E n \in BagToSet(notifications) :
                    /\ n.user_id = leaves[i].staff_id
                    /\ n.notification_type = "leave_response"

\* C19: when scheduler runs for the same week interleave, every committed
\* state holds at most one entry per (staff, date), and the commit of a run
\* persists all the entries the run computed or none of them; before its
\* commit a run changes nothing in the table.
C19_RunsAllOrNothing ==
    [][/\ \A e \in BagToSet(schedule') : CountAt(schedule', e.staff_id, e.date) = 1
       /\ \A w \in Workers :
             IF sessions[w].pc = "commit" /\ sessions'[w].pc = "idle"
             THEN \/ schedule' = schedule
                  \/ schedule' = schedule (+) SetToBag(sessions[w].pending)
             ELSE (sessions[w].pc \in SeqToSet(RunBlocks)
                   /\ sessions'[w] # sessions[w]) => schedule' = schedule
      ]_vars

\* two runs for the same week overlapped: one has committed its week, the
\* commit of the other was rejected and nothing of it is in the table
C19_Witness ==
    /\ last.op = "auto_generate"
    /\ last.result = <<"IntegrityError">>
    /\ BagCardinality(schedule) >= 5
    /\ \A w \in Workers : sessions[w] = Idle

----------------------------------------------------------------------------
(* Frame properties of leave decisions and scheduler runs                  *)

LeaveRecords(table, i) ==
    BagCardinality(BagFilter(table, LAMBDA e :
        e.event_type = "Leave" /\ e.event_data.leave_id = i))

LeaveAnswers(table, staff_id) ==
    BagCardinality(BagFilter(table, LAMBDA n :
        n.user_id = staff_id /\ n.notification_type = "leave_response"))

\* C21: deciding a Pending request records the status, the approver and the
\* time of the decision and adds exactly one history record of that decision
\* and exactly one notification to the requesting staff member, on approval
\* and on rejection alike; a rejection leaves every schedule entry as it was.
C21_DecisionEffects ==
    [][\A i \in 1..Len(leaves) :
          (/\ last'.op = "approve" /\ last'.key = <<i>> /\ now' # now
           /\ leaves[i].status = "Pending") =>
              /\ leaves'[i].status \in {"Approved", "Rejected"}
              /\ leaves'[i].approved_by \in
                    {u \in UserIds : users[u].role \in {"Practice Manager", "Super Admin"}}
              /\ leaves'[i].approved_at = now
              /\ leaves'[i].status = "Rejected" => schedule' = schedule
              /\ BagCardinality(events') = BagCardinality(events) + 1
              /\ LeaveRecords(events', i) = LeaveRecords(events, i) + 1
              /\ \E e \in BagToSet(events') :
                    /\ e.event_type = "Leave" /\ e.event_data.leave_id = i
                    /\ e.event_data.status = leaves'[i].status
              /\ BagCardinality(notifications') = BagCardinality(notifications) + 1
              /\ LeaveAnswers(notifications', leaves[i].staff_id)
                    = LeaveAnswers(notifications, leaves[i].staff_id) + 1
      ]_vars

\* a request was rejected while the staff member has an entry inside the
\* requested range
C21_Witness ==
    /\ last.op = "approve"
    /\ last.result[1] = "Rejected"
    /\ LET lv == leaves[last.key[1]]
       IN  \E e \in BagToSet(schedule) :
              /\ e.staff_id = lv.staff_id
              /\ lv.start_date <= e.date /\ e.date <= lv.end_date

\* C22: a scheduler run only adds entries: every entry that existed before
\* the run exists unchanged after it, and no leave request is changed.
C22_RunOnlyAdds ==
    [][SchedulerRan =>
          /\ \A e \in BagToSet(schedule) : CopiesIn(e, schedule') = CopiesIn(e, schedule)
          /\ BagCardinality(schedule') = BagCardinality(schedule) + last'.result[1]
          /\ leaves' = leaves
      ]_vars

\* a run added entries next to a manual entry, which is still there
C22_Witness ==
    /\ last.op = "auto_generate"
    /\ last.result[1] > 0
    /\ \E e \in BagToSet(schedule) : e.shift_type = "Off" /\ e.room = "Black Room"
    /\ \E i \in 1..Len(leaves) : leaves[i].status = "Approved"

\* C23: every entry a run creates is for a staff member who is Active and
\* not Super Admin and is dated Monday to Saturday of the week that contains
\* the week-start date given to the run.
C23_RunStaysInWeek ==
    [][SchedulerRan =>
          \E week_start \in WeekStarts :
              /\ AutoGenerate(week_start)
              /\ LET monday == week_start - (week_start % 7)
                 IN  \A r \in NewRows :
                        /\ users[r.staff_id].status = "Active"
                        /\ users[r.staff_id].role # "Super Admin"
                        /\ monday <= r.date /\ r.date <= monday + 5
      ]_vars

\* a run created entries from the Monday of its week on, none on a Sunday,
\* and none for the Super Admin or the deactivated user
C23_Witness ==
    /\ last.op = "auto_generate"
    /\ last.result[1] > 0
    /\ users[3].status = "Inactive"
    /\ \E e \in BagToSet(schedule) : e.date % 7 = 0
    /\ ~\E e \in BagToSet(schedule) : e.date % 7 = 6 \/ e.staff_id \in {1, 3}

----------------------------------------------------------------------------
(* Properties of the warning rule                                          *)

\* the automatic warnings held for a staff member and a pair of months
PairWarnings(table, staff_id, prev_month, month) ==
    BagCardinality(BagFilter(table, LAMBDA w :
        /\ w.staff_id = staff_id /\ w.warning_type = "KPI_Failed"
        /\ w.auto_generated /\ w.reason = <<prev_month, month>>))

\* C24: the warning rule keeps no memory: when month M of a staff member is
\* submitted below 70 with month M-1 recorded below 70 and is then submitted
\* below 70 again, each submission issues a KPI_Failed warning and a
\* notification, so two warnings for the same pair of months exist after the
\* second.
C24_DuplicateWarning ==
    [][(ScoreSaved /\ last.op = "score" /\ last.result[1] = "saved") =>
          LET s == last'.key[1]
              m == last'.key[2]
              y == last'.key[3]
              first == RecordedIn(kpi_scores, s, m, y)
              second == RecordedIn(kpi_scores', s, m, y)
              prev == RecordedIn(kpi_scores, s, PrevMonth(m), PrevYear(m, y))
          IN  (/\ <<last.key[1], last.key[2], last.key[3]>> = <<s, m, y>>
               /\ first # {} /\ RowsBelow70(first)
               /\ second # {} /\ RowsBelow70(second)
               /\ prev # {} /\ RowsBelow70(prev)) =>
                  /\ PairWarnings(warnings', s, PrevMonth(m), m)
                        = PairWarnings(warnings, s, PrevMonth(m), m) + 1
                  /\ PairWarnings(warnings', s, PrevMonth(m), m) >= 2
                  /\ WarningNotes(notifications', s) = WarningNotes(notifications, s) + 1
                  /\ WarningNotes(notifications', s) >= 2
      ]_vars

\* C26: a submission that records no KPI value for month M issues no
\* KPI_Failed warning and no warning notification, also when month M-1 has a
\* recorded aggregate below 70.
C26_EmptySubmissionNoWarning ==
    [][ScoreSaved =>
          LET s == last'.key[1]
              m == last'.key[2]
              y == last'.key[3]
          IN  {r \in kpi_scores' : r.staff_id = s /\ r.month = m /\ r.year = y} = {} =>
                  /\ warnings' = warnings
                  /\ WarningNotes(notifications', s) = WarningNotes(notifications, s)
      ]_vars

\* C27: whether a submission for month m of year y issues a warning depends
\* on the submitted percentage and on the recorded scores of the calendar
\* month just before it -- (m-1, y) for m in 2..12 and (12, y-1) for January
\* -- and on no other month; the warning names that pair of months.  (A
\* Practice Manager is never warned: the aggregator returns no score for that
\* role.)
C27_ExactlyPreviousMonth ==
    [][ScoreSaved =>
          LET s == last'.key[1]
              m == last'.key[2]
              y == last'.key[3]
              percentage == last'.result[2]
              before_m == IF m \in 2..12 THEN m - 1 ELSE 12
              before_y == IF m \in 2..12 THEN y ELSE y - 1
              prev == RecordedIn(kpi_scores', s, before_m, before_y)
              issued == BagCardinality(warnings') - BagCardinality(warnings)
              expected == /\ percentage.num < 70 * percentage.den
                          /\ users[s].role # "Practice Manager"
                          /\ prev # {}
                          /\ RowsBelow70(prev)
          IN  /\ issued = (IF expected THEN 1 ELSE 0)
              /\ PairWarnings(warnings', s, before_m, m)
                    = PairWarnings(warnings, s, before_m, m) + issued
      ]_vars

\* a January submission below 70 drew a warning from the December of the
\* year before, while February holds scores too
C27_Witness ==
    /\ last.op = "score"
    /\ last.key[2] = 1
    /\ PairWarnings(warnings, last.key[1], 12, 1) = 1
    /\ Recorded(last.key[1], 12, last.key[3] - 1) # {}
    /\ Recorded(last.key[1], 2, last.key[3]) # {}

----------------------------------------------------------------------------
(* Properties of a scheduler run racing a leave approval                   *)

\* every request has been served to its end
Quiescent == \A w \in Workers : sessions[w] = Idle

\* C28: when a scheduler run interleaves with the approval of a leave
\* request of a staff member covering a date of the scheduled week, no final
\* committed state (every request served) holds both the Approved leave and a
\* schedule entry of that staff member on a date the leave covers.
C28_RunRespectsApproval ==
    Quiescent =>
        \A i \in 1..Len(leaves), e \in BagToSet(schedule) :
            (leaves[i].status = "Approved" /\ e.staff_id = leaves[i].staff_id) =>
                (e.date < leaves[i].start_date \/ e.date > leaves[i].end_date)

----------------------------------------------------------------------------
(* Two decisions on one request.  The handler reads the request and tests  *)
(* its status (lines 243-247) in one step and writes the decision (lines   *)
(* 251-264) in a later one; nothing is re-checked at the write.            *)

\* POST /leave/<leave_id>/approve: the read of the request and the guard
\* (lines 243-247)
approve_load(w, leave_id, submit_approve, m) ==
    /\ now < MaxOps
    /\ Handling(w, "idle")
    /\ leave_id \in 1..Len(leaves)
    /\ m \in Managers
    /\ IF AlreadyProcessed(leaves[leave_id])
       THEN /\ last' = Request("approve", <<leave_id>>, <<"already_processed">>)
            /\ UNCHANGED sessions
       ELSE /\ sessions' = [sessions EXCEPT ![w] =
                   Session("write_status",
                           <<leave_id, m, IF submit_approve THEN 1 ELSE 0>>, {})]
            /\ UNCHANGED last
    /\ now' = now + 1
    /\ UNCHANGED <<users, schedule, leaves, events, notifications, kpi_scores,
                   warnings>>

\* ... the decision written to the row and its commit (lines 251-264)
approve_write_status(w) ==
    /\ Handling(w, "write_status")
    /\ LET leave_id == sessions[w].locals[1]
           m == sessions[w].locals[2]
           decided == [leaves[leave_id] EXCEPT
                          !.status = Decision(sessions[w].locals[3] = 1),
                          !.approved_by = m,
                          !.approved_at = now]
       IN  /\ leaves' = [leaves EXCEPT ![leave_id] = decided]
           /\ sessions' = [sessions EXCEPT ![w] =
                  Session("after_status", <<leave_id, m, 0>>, {})]
    /\ UNCHANGED <<users, schedule, events, notifications, kpi_scores, warnings,
                   now, last>>

\* ... the transaction after that commit: the row is read again (its
\* attributes expired with the commit); an Approved request has its
\* conflicting schedules removed and committed (lines 266-277), any other
\* has its performance event recorded and committed (lines 279-294)
approve_after_status(w) ==
    /\ Handling(w, "after_status")
    /\ LET leave_id == sessions[w].locals[1]
           m == sessions[w].locals[2]
           leave == leaves[leave_id]
       IN  IF leave.status = "Approved"
           THEN /\ schedule' = RemoveConflicting(schedule, leave)
                /\ sessions' = [sessions EXCEPT ![w] =
                       Session("record_event",
                               <<leave_id, m,
                                 Cardinality(Conflicting(schedule, leave))>>, {})]
                /\ UNCHANGED events
           ELSE /\ events' = events (+) SetToBag({LeaveEvent(leave_id, leave, m)})
                /\ sessions' = [sessions EXCEPT ![w].pc = "notify"]
                /\ UNCHANGED schedule
    /\ UNCHANGED <<users, leaves, notifications, kpi_scores, warnings, now, last>>

\* the entries on the schedule when the requests were filed
WorkedDays ==
    SetToBag({Row(4, 1, "Dental Assistant", "Full Day", NULL, NULL, NULL),
              Row(4, 3, "Dental Assistant", "Full Day", NULL, NULL, NULL),
              Row(2, 5, "Dentist", "Morning", "Red Room", NULL, NULL)})

InitRace ==
    /\ users = Roster
    /\ schedule = WorkedDays
    /\ leaves \in LeaveQueues
    /\ events = EmptyBag
    /\ notifications =
           [n \in {Notification(m, "leave_request", "New Leave Request") :
                      m \in {1, 3}} |-> Len(leaves)]
    /\ kpi_scores = {}
    /\ warnings = EmptyBag
    /\ now = 0
    /\ last = NoRequest
    /\ sessions = [w \in Workers |-> Idle]

NextRace ==
    \/ \E w \in Workers, l \in 1..2, ok \in BOOLEAN, m \in {1, 3} :
          approve_load(w, l, ok, m)
    \/ \E w \in Workers : approve_write_status(w)
    \/ \E w \in Workers : approve_after_status(w)
    \/ \E w \in Workers : approve_record_event(w)
    \/ \E w \in Workers : approve_notify(w)

SpecRace == InitRace /\ [][NextRace]_vars

\* C29: when two managers decide the same Pending request concurrently, the
\* request is decided once: after both requests are served it has exactly one
\* history record and one notification, a Rejected request has kept its
\* schedule entries and an Approved one has none left inside its range.
C29_DecidedOnce ==
    Quiescent =>
        \A i \in 1..Len(leaves) :
            leaves[i].status # "Pending" =>
                /\ BagCardinality(BagFilter(events, LAMBDA e :
                       e.event_type = "Leave" /\ e.event_data.leave_id = i)) = 1
                /\ BagCardinality(BagFilter(notifications, LAMBDA n :
                       /\ n.user_id = leaves[i].staff_id
                       /\ n.notification_type = "leave_response")) = 1
                /\ leaves[i].status = "Rejected" =>
                       Conflicting(schedule, leaves[i]) = Conflicting(WorkedDays, leaves[i])
                /\ leaves[i].status = "Approved" =>
                       Conflicting(schedule, leaves[i]) = {}

----------------------------------------------------------------------------
(* A scoring submission, one action per transaction.  The delete of the    *)
(* period's rows and the inserts of the new ones are statements of one     *)
(* transaction (lines 187-214), made visible together by one commit (line  *)
(* 216).  The database of the default configuration is SQLite: a           *)
(* transaction that has written holds the write lock until it commits.     *)

\* another session holds the write lock
WriteLocked(w) == \E v \in Workers \ {w} : Handling(v, "commit_scores")

\* mutant: the delete is committed on its own, before the inserts
CommittedScores_DeleteOnly(kept, rows) == kept

\* the table after the commit of line 216
CommittedScores(kept, rows) == kept \cup rows

\* POST /kpi/score up to the last insert (lines 168-214): the delete and the
\* new rows are in the session, nothing is committed
score_stage(w, staff_id, month, year, scored, met) ==
    /\ now < MaxOps
    /\ Handling(w, "idle")
    /\ ~WriteLocked(w)
    /\ IF staff_id \notin UserIds \/ users[staff_id].role \notin SCORABLE_ROLES
       THEN /\ last' = Request("score", <<staff_id, month, year>>, <<"invalid">>)
            /\ UNCHANGED sessions
       ELSE LET role_kpis == ActiveKpiIds(get_kpi_role(users[staff_id].role))
                saved == {k \in role_kpis : k \in scored}
                met_count == Cardinality({k \in saved : k \in met})
                total_count == Cardinality(saved)
                rows == {KPIScore(staff_id, k, month, year,
                                  IF k \in met THEN 1 ELSE 0) : k \in saved}
            IN  /\ sessions' = [sessions EXCEPT ![w] =
                       Session("commit_scores",
                               <<staff_id, month, year, met_count, total_count>>,
                               rows)]
                /\ UNCHANGED last
    /\ now' = now + 1
    /\ UNCHANGED <<users, schedule, leaves, events, notifications, kpi_scores,
                   warnings>>

\* ... the commit of the delete and the inserts (line 216)
score_commit_scores(w) ==
    /\ Handling(w, "commit_scores")
    /\ LET l == sessions[w].locals
           kept == ScoresKept(l[1], l[2], l[3])
       IN  /\ kpi_scores' = CommittedScores(kept, sessions[w].pending)
           /\ sessions' = [sessions EXCEPT ![w] =
                  Session("score_event",
                          l \o <<Cardinality(kpi_scores \ kept)>>, {})]
    /\ UNCHANGED <<users, schedule, leaves, events, notifications, warnings,
                   now, last>>

\* ... the performance event, the notification and their commit (lines
\* 218-247), and the test of line 250
score_commit_event(w) ==
    /\ Handling(w, "score_event")
    /\ ~WriteLocked(w)
    /\ LET l == sessions[w].locals
           percentage == Percentage(l[4], l[5])
       IN  /\ events' = events (+) SetToBag({
                  [staff_id |-> l[1], event_type |-> "KPI_Score",
                   event_data |-> [month |-> l[2], year |-> l[3],
                                   met |-> l[4], total |-> l[5],
                                   percentage |-> percentage],
                   created_by |-> 1]})
           /\ notifications' = notifications (+) SetToBag({
                  Notification(l[1], "kpi_score", <<l[2], l[3]>>)})
           /\ IF Below70(percentage)
              THEN /\ sessions' = [sessions EXCEPT ![w].pc = "score_warning"]
                   /\ UNCHANGED last
              ELSE /\ sessions' = [sessions EXCEPT ![w] = Idle]
                   /\ last' = Request("score", <<l[1], l[2], l[3]>>,
                                      <<"saved", percentage, l[6]>>)
    /\ UNCHANGED <<users, schedule, leaves, kpi_scores, warnings, now>>

\* ... check_kpi_warning and its commit (lines 250-251 and 377-414)
score_check_warning(w) ==
    /\ Handling(w, "score_warning")
    /\ ~WriteLocked(w)
    /\ LET l == sessions[w].locals
           warn == check_kpi_warning(l[1], l[2], l[3])
       IN  /\ warnings' =
                IF warn
                THEN warnings (+) SetToBag({KpiWarning(l[1], PrevMonth(l[2]), l[2])})
                ELSE warnings
           /\ notifications' =
                IF warn
                THEN notifications (+) SetToBag({
                        Notification(l[1], "warning", "Performance Warning Issued")})
                ELSE notifications
           /\ last' = Request("score", <<l[1], l[2], l[3]>>,
                              <<"saved", Percentage(l[4], l[5]), l[6]>>)
    /\ sessions' = [sessions EXCEPT ![w] = Idle]
    /\ UNCHANGED <<users, schedule, leaves, events, kpi_scores, now>>

\* the dentist and the periods the concurrent submissions are drawn from
RescoredStaff == {2}
RescoredPeriods == {<<1, 2026>>, <<2, 2026>>}

NextScoreTxn ==
    \/ \E w \in Workers, u \in RescoredStaff, p \in RescoredPeriods :
          \E f \in Forms(u) : score_stage(w, u, p[1], p[2], f[1], f[2])
    \/ \E w \in Workers : score_commit_scores(w)
    \/ \E w \in Workers : score_commit_event(w)
    \/ \E w \in Workers : score_check_warning(w)

\* the tables after an earlier submission: dentist 2, January 2026, KPI 1
\* not met and KPI 2 met
EarlierScores == {KPIScore(2, 1, 1, 2026, 0), KPIScore(2, 2, 1, 2026, 1)}

InitScoreTxn ==
    /\ users = Roster
    /\ schedule = EmptyBag
    /\ leaves = <<>>
    /\ events = SetToBag({
           [staff_id |-> 2, event_type |-> "KPI_Score",
            event_data |-> [month |-> 1, year |-> 2026, met |-> 1, total |-> 2,
                            percentage |-> Percentage(1, 2)],
            created_by |-> 1]})
    /\ notifications = SetToBag({Notification(2, "kpi_score", <<1, 2026>>)})
    /\ kpi_scores = EarlierScores
    /\ warnings = EmptyBag
    /\ now = 0
    /\ last = NoRequest
    /\ sessions = [w \in Workers |-> Idle]

SpecScoreTxn == InitScoreTxn /\ [][NextScoreTxn]_vars

\* the aggregate of a period is "no score"
NoScore(aggregate) == aggregate.none

\* C25: re-scoring a period that already has scores is atomic for concurrent
\* readers: no commit takes a period from having scores to having none --
\* and its aggregate from a score to "no score" -- except the commit of a
\* submission that records no score at all.
C25_RescoreAtomic ==
    [][\A s \in RescoredStaff, p \in RescoredPeriods :
          LET emptied == /\ RecordedIn(kpi_scores, s, p[1], p[2]) # {}
                         /\ RecordedIn(kpi_scores', s, p[1], p[2]) = {}
              lost == /\ ~NoScore(calculate_monthly_score(s, p[1], p[2]))
                      /\ NoScore(calculate_monthly_score(s, p[1], p[2])')
          IN  (emptied \/ lost) =>
                  \E w \in Workers :
                      /\ sessions[w].pc = "commit_scores"
                      /\ sessions[w].locals = <<s, p[1], p[2], 0, 0>>
                      /\ sessions'[w].pc = "score_event"
      ]_vars

\* a re-scoring that records a score has committed over the period's earlier
\* rows while the other worker is in the middle of a request
C25_Witness ==
    \E w \in Workers :
        /\ sessions[w].pc = "score_event"
        /\ sessions[w].locals[5] > 0
        /\ sessions[w].locals[6] > 0
        /\ Recorded(sessions[w].locals[1], sessions[w].locals[2],
                    sessions[w].locals[3]) # {}
        /\ \E v \in Workers \ {w} : sessions[v].pc # "idle"

----------------------------------------------------------------------------
(* User administration, src/app/routes/users.py.  The requests are those   *)
(* of the Super Admin, user 1.                                             *)

\* User.query.filter_by(role='Practice Manager', status='Active'): the rows
\* .first() takes one from; none when the set is empty
get_current_practice_manager ==
    {u \in UserIds :
        users[u].role = "Practice Manager" /\ users[u].status = "Active"}

\* mutant: the manager in office keeps the role
Demoted_Kept(table, current_pm) == table

\* current_pm.role = 'Dentist' (lines 243 and 274)
Demoted(table, current_pm) == [table EXCEPT ![current_pm].role = "Dentist"]

\* the id the database gives the next user row
NextUserId == 1 + CHOOSE u \in UserIds : \A v \in UserIds : v <= u

\* POST /users/create
create(role, full_name) ==
    /\ now < MaxOps
    /\ role \in STAFF_ROLES
    /\ users' = users @@ (NextUserId :> User(role, "Active", full_name))
    /\ last' = Request("create", <<NextUserId>>, <<role>>)
    /\ now' = now + 1
    /\ UNCHANGED <<schedule, leaves, events, notifications, kpi_scores, warnings,
                   sessions>>

\* POST /users/<user_id>/delete
delete_user(user_id) ==
    /\ now < MaxOps
    /\ user_id \in UserIds
    /\ IF user_id = 1
       THEN /\ last' = Request("delete_user", <<user_id>>, <<"own_account">>)
            /\ UNCHANGED <<users, schedule, leaves, events, kpi_scores, warnings>>
       ELSE IF /\ users[user_id].role = "Super Admin"
               /\ Cardinality({u \in UserIds : /\ users[u].role = "Super Admin"
                                                /\ users[u].status = "Active"}) <= 1
       THEN /\ last' = Request("delete_user", <<user_id>>, <<"only_super_admin">>)
            /\ UNCHANGED <<users, schedule, leaves, events, kpi_scores, warnings>>
       ELSE /\ schedule' = BagFilter(schedule, LAMBDA e : e.staff_id # user_id)
            /\ leaves' = SelectSeq(leaves, LAMBDA l : l.staff_id # user_id)
            /\ kpi_scores' = {r \in kpi_scores : r.staff_id # user_id}
            /\ warnings' = BagFilter(warnings, LAMBDA x : x.staff_id # user_id)
            /\ events' = BagFilter(events, LAMBDA e : e.staff_id # user_id)
            /\ users' = [u \in UserIds \ {user_id} |-> users[u]]
            /\ last' = Request("delete_user", <<user_id>>, <<"deleted">>)
    /\ now' = now + 1
    /\ UNCHANGED <<notifications, sessions>>

\* POST /users/practice-manager/assign/<user_id>
assign_practice_manager(user_id) ==
    /\ now < MaxOps
    /\ user_id \in UserIds
    /\ IF users[user_id].role = "Super Admin"
       THEN /\ last' = Request("assign_practice_manager", <<user_id>>,
                               <<"super_admin">>)
            /\ UNCHANGED users
       ELSE IF get_current_practice_manager = {}
       THEN /\ users' = [users EXCEPT ![user_id].role = "Practice Manager"]
            /\ last' = Request("assign_practice_manager", <<user_id>>,
                               <<"assigned">>)
       ELSE \E current_pm \in get_current_practice_manager :
               IF current_pm # user_id
               THEN /\ users' = [Demoted(users, current_pm) EXCEPT
                                    ![user_id].role = "Practice Manager"]
                    /\ last' = Request("assign_practice_manager", <<user_id>>,
                                       <<"assigned", current_pm>>)
               ELSE /\ users' = [users EXCEPT ![user_id].role = "Practice Manager"]
                    /\ last' = Request("assign_practice_manager", <<user_id>>,
                                       <<"assigned">>)
    /\ now' = now + 1
    /\ UNCHANGED <<schedule, leaves, events, notifications, kpi_scores, warnings,
                   sessions>>

\* POST /users/practice-manager/remove
remove_practice_manager ==
    /\ now < MaxOps
    /\ IF get_current_practice_manager = {}
       THEN /\ last' = Request("remove_practice_manager", <<>>, <<"none_assigned">>)
            /\ UNCHANGED users
       ELSE \E current_pm \in get_current_practice_manager :
               /\ users' = Demoted(users, current_pm)
               /\ last' = Request("remove_practice_manager", <<>>,
                                  <<"removed", current_pm>>)
    /\ now' = now + 1
    /\ UNCHANGED <<schedule, leaves, events, notifications, kpi_scores, warnings,
                   sessions>>

\* the user tables the administration starts from: the Practice Manager in
\* office, nobody in the role, and a Practice Manager who is Inactive
UserTables ==
    {Roster, [Roster EXCEPT ![3].role = "Dentist"],
     [Roster EXCEPT ![3].status = "Inactive"]}

InitUsers ==
    /\ users \in UserTables
    /\ schedule = EmptyBag
    /\ leaves = <<>>
    /\ events = EmptyBag
    /\ notifications = EmptyBag
    /\ kpi_scores = {}
    /\ warnings = EmptyBag
    /\ now = 0
    /\ last = NoRequest
    /\ sessions = [w \in Workers |-> Idle]

\* inputs the administration requests are drawn from
CreatedRoles == {"Dentist", "Receptionist"}
EditedUsers == {3, 4}
EditedRoles == {"Dentist", "Cleaner"}

NextUsers ==
    \/ \E role \in CreatedRoles : create(role, <<"N", "e", "w">>)
    \/ \E u \in EditedUsers \cap UserIds, role \in EditedRoles,
          status \in {"Active", "Inactive"} : edit(u, role, status)
    \/ \E u \in UserIds : delete_user(u)
    \/ \E u \in UserIds : assign_practice_manager(u)
    \/ remove_practice_manager

SpecUsers == InitUsers /\ [][NextUsers]_vars

\* the Active users of role Practice Manager in a user table
ActiveManagers(table) ==
    {u \in DOMAIN table :
        table[u].role = "Practice Manager" /\ table[u].status = "Active"}

\* C30: from a state with at most one Active Practice Manager, every assign,
\* remove, create, edit and delete leaves at most one Active Practice
\* Manager; an assignment gives the role to the user named and, in the same
\* commit, demotes the Active Practice Manager in office to Dentist.
C30_OnePracticeManager ==
    [][Cardinality(ActiveManagers(users)) <= 1 =>
          /\ Cardinality(ActiveManagers(users')) <= 1
          /\ (/\ now' = now + 1
              /\ last'.op = "assign_practice_manager"
              /\ last'.result[1] = "assigned") =>
                 LET new_pm == last'.key[1]
                 IN  /\ users'[new_pm].role = "Practice Manager"
                     /\ \A p \in ActiveManagers(users) \ {new_pm} :
                            users'[p].role = "Dentist"
                     /\ ActiveManagers(users') \subseteq {new_pm}
      ]_vars

\* an assignment has replaced Practice Manager 3, who is now a Dentist, by
\* another Active user
C30_Witness ==
    /\ last.op = "assign_practice_manager"
    /\ last.result = <<"assigned", 3>>
    /\ 3 \in UserIds
    /\ users[3].role = "Dentist"
    /\ ActiveManagers(users) = {last.key[1]}

====
